---- MODULE Spec2Model ----
(***************************************************************************)
(* Model of python/jobs/context_capture_job.py: the reference-table guarded *)
(* upload of the two job inputs (upload_data), job creation, the progress   *)
(* polling loop (tracking_job_progress) and the output download loop        *)
(* (download_outputs), as run by main().                                    *)
(*                                                                          *)
(* Several runs of the script may share the persisted reference file.       *)
(***************************************************************************)
EXTENDS Integers, Sequences, FiniteSets, TLC

\* ---------------------------------------------------------------- bounds
NumRuns == 2          \* runs of the script that share the reference file
MaxPolls == 3         \* status queries one run may issue
MaxAdds == 3          \* add_reference calls on one table when the table is exercised alone

Runs == 1..NumRuns
MainRun == 1          \* the run followed through the whole of main()

\* ------------------------------------------------------------- vocabulary
\* local paths: main() gives upload_data one for the image collection and one
\* for the orientations, which may be the same string
Paths == {"images", "orientations"}
None == "None"
NoCloudId == 0        \* the value of a ReturnValue that carries an error instead of a cloud id

\* raw values of JobState used by tracking_job_progress, plus one raw value
\* the loop has no branch for
SuccessStates == {"SUCCESS", "Completed", "Over"}
RunningStates == {"ACTIVE", "Running"}
TerminalStates == SuccessStates \cup {"CANCELLED", "FAILED"}
JobStates == SuccessStates \cup RunningStates \cup {"CANCELLED", "FAILED", "UNKNOWN"}
Percents == {0, 100}
Steps == {"s1", "s2"}
QueryError == "QueryError"

\* attributes of CCJobSettings.Outputs, in attribute order, and the id the
\* service gives the output of each kind
OutputKinds == <<"cesium_3D_tiles", "obj", "las">>
KindSet == {OutputKinds[i] : i \in 1..Len(OutputKinds)}
OutputIdOf == [k \in KindSet |->
                 CASE k = "cesium_3D_tiles" -> "id1"
                   [] k = "obj" -> "id2"
                   [] OTHER -> "id3"]

VARIABLES
  file,         \* the persisted reference file: [exists, lines]
  cloud,        \* uploads the service completed: cloud[c] = [path, run], c the cloud id
  pc,           \* pc[r]: position of run r
  cc_image_collections, \* the two local paths main() gives to upload_data
  cc_orientations,
  refs,         \* refs[r]: the in-memory ReferenceTable, a sequence of <<local, cloud>>
  loaded,       \* loaded[r]: the table as it was after the load step
  calls,        \* calls[r][p]: upload calls run r made for path p
  inputs,       \* inputs[r]: settings.inputs built by create_job_settings
  jobCalls,     \* jobCalls[r]: calls made so far of create_job, submit_job, get_job_properties
  served,       \* served[r]: the answers get_job_progress gave so far
  job_progress, \* job_progress[r]: the latest snapshot held by the loop
  nObs,         \* nObs[r]: "Progress: ..." lines printed
  lastObs,      \* lastObs[r]: <<progress, step>> of the last such line
  nSleeps,      \* nSleeps[r]: time.sleep(60) calls
  msg,          \* msg[r]: last status line printed by tracking_job_progress
  outputs,      \* outputs[r]: final_settings.outputs, kind -> id or None
  todo,         \* todo[r]: kinds the download loop still has to visit
  attempts,     \* attempts[r][k]: download calls made for kind k
  dlOk,         \* dlOk[r]: kinds whose download call returned success
  errPrinted,   \* errPrinted[r]: kinds with "Error while downloading k output" printed
  dlPrinted     \* dlPrinted[r]: kinds with "Downloaded k output" printed

uploadVars == <<file, cloud, cc_image_collections, cc_orientations, refs, loaded, calls>>
trackVars == <<served, job_progress, nObs, lastObs, nSleeps, msg>>
downloadVars == <<outputs, todo, attempts, dlOk, errPrinted, dlPrinted>>
vars == <<file, cloud, pc, cc_image_collections, cc_orientations, refs, loaded, calls, inputs,
          jobCalls,
          served, job_progress, nObs, lastObs, nSleeps, msg,
          outputs, todo, attempts, dlOk, errPrinted, dlPrinted>>

\* ------------------------------------------------------- ReferenceTable
EmptyTable == << >>

has_local_path(t, p) == \E i \in 1..Len(t) : t[i][1] = p

\* [error, table]: insert, fails if the key already exists
add_reference(t, p, c) ==
  IF has_local_path(t, p)
  THEN [error |-> TRUE, table |-> t]
  ELSE [error |-> FALSE, table |-> Append(t, <<p, c>>)]

\* [error, value]
get_cloud_id_from_local_path(t, p) ==
  IF has_local_path(t, p)
  THEN [error |-> FALSE, value |-> t[CHOOSE i \in 1..Len(t) : t[i][1] = p][2]]
  ELSE [error |-> TRUE, value |-> NoCloudId]

InLines(lines, e) == \E i \in 1..Len(lines) : lines[i] = e

\* save writes one record per local/cloud pair and overwrites the file
save(t) == [exists |-> TRUE, lines |-> t]

\* load reads the records one by one into the table
RECURSIVE load_lines(_, _)
load_lines(t, lines) ==
  IF lines = << >> THEN [error |-> FALSE, table |-> t]
  ELSE LET ret == add_reference(t, Head(lines)[1], Head(lines)[2])
       IN IF ret.error THEN [error |-> TRUE, table |-> t]
          ELSE load_lines(ret.table, Tail(lines))

load(t, f) == load_lines(t, f.lines)

\* ------------------------------------------------------------------- Init
NoSnapshot == [state |-> None, progress |-> 0, step |-> None]
NoObs == <<0, None>>

Init ==
  /\ file = [exists |-> FALSE, lines |-> << >>]
  /\ cloud = << >>
  /\ pc = [r \in Runs |-> "idle"]
  /\ cc_image_collections = "images"
  /\ cc_orientations \in Paths
  /\ refs = [r \in Runs |-> EmptyTable]
  /\ loaded = [r \in Runs |-> EmptyTable]
  /\ calls = [r \in Runs |-> [p \in Paths |-> 0]]
  /\ inputs = [r \in Runs |-> << >>]
  /\ jobCalls = [r \in Runs |-> [create |-> 0, submit |-> 0, properties |-> 0]]
  /\ served = [r \in Runs |-> << >>]
  /\ job_progress = [r \in Runs |-> NoSnapshot]
  /\ nObs = [r \in Runs |-> 0]
  /\ lastObs = [r \in Runs |-> NoObs]
  /\ nSleeps = [r \in Runs |-> 0]
  /\ msg = [r \in Runs |-> None]
  /\ outputs = [r \in Runs |-> [k \in KindSet |-> None]]
  /\ todo = [r \in Runs |-> << >>]
  /\ attempts = [r \in Runs |-> [k \in KindSet |-> 0]]
  /\ dlOk = [r \in Runs |-> {}]
  /\ errPrinted = [r \in Runs |-> {}]
  /\ dlPrinted = [r \in Runs |-> {}]

\* ------------------------------------------------------------ upload_data
\* the error of the load is not looked at: the run goes on with what was read
LoadReferencesUnchecked(r) ==
  /\ pc[r] = "idle"
  /\ IF ~file.exists
     THEN UNCHANGED <<refs, loaded>>
     ELSE \E ioOk \in BOOLEAN :
            LET ret == IF ioOk THEN load(EmptyTable, file)
                       ELSE [error |-> TRUE, table |-> EmptyTable]
            IN /\ refs' = [refs EXCEPT ![r] = ret.table]
               /\ loaded' = [loaded EXCEPT ![r] = ret.table]
  /\ pc' = [pc EXCEPT ![r] = "images"]
  /\ UNCHANGED <<file, cloud, cc_image_collections, cc_orientations, calls, inputs, jobCalls>>
  /\ UNCHANGED <<trackVars, downloadVars>>

\* references = ReferenceTable(); if os.path.isfile(references_path):
\* ret = references.load(...); exit(1) on error
LoadReferences(r) ==
  /\ pc[r] = "idle"
  /\ IF ~file.exists
     THEN /\ pc' = [pc EXCEPT ![r] = "images"]
          /\ UNCHANGED <<refs, loaded>>
     ELSE \E ioOk \in BOOLEAN :
            LET ret == IF ioOk THEN load(EmptyTable, file)
                       ELSE [error |-> TRUE, table |-> EmptyTable]
            IN IF ret.error
               THEN /\ pc' = [pc EXCEPT ![r] = "exit1"]
                    /\ UNCHANGED <<refs, loaded>>
               ELSE /\ refs' = [refs EXCEPT ![r] = ret.table]
                    /\ loaded' = [loaded EXCEPT ![r] = ret.table]
                    /\ pc' = [pc EXCEPT ![r] = "images"]
  /\ UNCHANGED <<file, cloud, cc_image_collections, cc_orientations, calls, inputs, jobCalls>>
  /\ UNCHANGED <<trackVars, downloadVars>>

NeedsUploadAlways(t, p) == TRUE
\* the test with its "not" left out
NeedsUploadInverted(t, p) == has_local_path(t, p)

\* the test that guards each upload: not references.has_local_path(path)
NeedsUpload(t, p) == ~has_local_path(t, p)

\* the error of the upload is not looked at
AfterUploadUnchecked(t, p, ret) ==
  LET added == add_reference(t, p, ret.value)
  IN [exit |-> added.error, table |-> added.table]

\* a failure of add_reference is not looked at
AfterUploadAddUnchecked(t, p, ret) ==
  IF ret.error THEN [exit |-> TRUE, table |-> t]
  ELSE [exit |-> FALSE, table |-> add_reference(t, p, ret.value).table]

\* what follows an upload call that returned ret = [error, value]:
\* exit(1) on error, else add_reference and exit(1) if that fails
AfterUpload(t, p, ret) ==
  IF ret.error THEN [exit |-> TRUE, table |-> t]
  ELSE LET added == add_reference(t, p, ret.value)
       IN [exit |-> added.error, table |-> added.table]

\* one guarded upload of path p by run r, continuing at pc value next
EnsureUploaded(r, p, next) ==
  IF NeedsUpload(refs[r], p)
  THEN \E ok \in BOOLEAN :
         LET ret == IF ok THEN [error |-> FALSE, value |-> Len(cloud) + 1]
                    ELSE [error |-> TRUE, value |-> NoCloudId]
             after == AfterUpload(refs[r], p, ret)
         IN /\ calls' = [calls EXCEPT ![r][p] = @ + 1]
            /\ cloud' = IF ok THEN Append(cloud, [path |-> p, run |-> r]) ELSE cloud
            /\ refs' = [refs EXCEPT ![r] = after.table]
            /\ pc' = [pc EXCEPT ![r] = IF after.exit THEN "exit1" ELSE next]
  ELSE /\ pc' = [pc EXCEPT ![r] = next]
       /\ UNCHANGED <<calls, cloud, refs>>

UploadImageCollection(r) ==
  /\ pc[r] = "images"
  /\ EnsureUploaded(r, cc_image_collections, "save1")
  /\ UNCHANGED <<file, cc_image_collections, cc_orientations, loaded, inputs, jobCalls>>
  /\ UNCHANGED <<trackVars, downloadVars>>

\* references.save(references_path), result not looked at
SaveAfterImages(r) ==
  /\ pc[r] = "save1"
  /\ \E ok \in BOOLEAN : file' = IF ok THEN save(refs[r]) ELSE file
  /\ pc' = [pc EXCEPT ![r] = "orientations"]
  /\ UNCHANGED <<cloud, cc_image_collections, cc_orientations, refs, loaded, calls, inputs, jobCalls>>
  /\ UNCHANGED <<trackVars, downloadVars>>

UploadOrientations(r) ==
  /\ pc[r] = "orientations"
  /\ EnsureUploaded(r, cc_orientations, "save2")
  /\ UNCHANGED <<file, cc_image_collections, cc_orientations, loaded, inputs, jobCalls>>
  /\ UNCHANGED <<trackVars, downloadVars>>

\* the save adds the entries of the table to the records the file already
\* holds instead of writing the file anew
RECURSIVE merge_lines(_, _)
merge_lines(lines, t) ==
  IF t = << >> THEN lines
  ELSE merge_lines(IF InLines(lines, Head(t)) THEN lines ELSE Append(lines, Head(t)), Tail(t))

SaveReferencesAppending(r) ==
  /\ pc[r] = "save2"
  /\ \E ok \in BOOLEAN :
       /\ file' = IF ok THEN [exists |-> TRUE, lines |-> merge_lines(file.lines, refs[r])]
                  ELSE file
       /\ pc' = [pc EXCEPT ![r] = IF ok THEN "uploaded" ELSE "exit1"]
  /\ UNCHANGED <<cloud, cc_image_collections, cc_orientations, refs, loaded, calls, inputs, jobCalls>>
  /\ UNCHANGED <<trackVars, downloadVars>>

\* the result of the last save is not looked at either
SaveReferencesUnchecked(r) ==
  /\ pc[r] = "save2"
  /\ \E ok \in BOOLEAN : file' = IF ok THEN save(refs[r]) ELSE file
  /\ pc' = [pc EXCEPT ![r] = "uploaded"]
  /\ UNCHANGED <<cloud, cc_image_collections, cc_orientations, refs, loaded, calls, inputs, jobCalls>>
  /\ UNCHANGED <<trackVars, downloadVars>>

\* ret = references.save(references_path); exit(1) on error; return references
SaveReferences(r) ==
  /\ pc[r] = "save2"
  /\ \E ok \in BOOLEAN :
       /\ file' = IF ok THEN save(refs[r]) ELSE file
       /\ pc' = [pc EXCEPT ![r] = IF ok THEN "uploaded" ELSE "exit1"]
  /\ UNCHANGED <<cloud, cc_image_collections, cc_orientations, refs, loaded, calls, inputs, jobCalls>>
  /\ UNCHANGED <<trackVars, downloadVars>>

\* the process is killed while it is inside upload_data
UploadPcs == {"images", "save1", "orientations", "save2"}

Crash(r) ==
  /\ pc[r] \in UploadPcs
  /\ pc' = [pc EXCEPT ![r] = "crashed"]
  /\ UNCHANGED <<uploadVars, inputs, jobCalls, trackVars, downloadVars>>

\* ------------------------------------------- workspace, settings and job
CreateWorkspace(r) ==
  /\ pc[r] = "uploaded"
  /\ \E ok \in BOOLEAN : pc' = [pc EXCEPT ![r] = IF ok THEN "settings" ELSE "exit1"]
  /\ UNCHANGED <<uploadVars, inputs, jobCalls, trackVars, downloadVars>>

\* settings.inputs = [cloud id of the image collection, cloud id of the orientations]
JobInputs(t, im, ori) ==
  << get_cloud_id_from_local_path(t, im).value,
     get_cloud_id_from_local_path(t, ori).value >>

CreateJobSettings(r) ==
  /\ pc[r] = "settings"
  /\ inputs' = [inputs EXCEPT ![r] = JobInputs(refs[r], cc_image_collections, cc_orientations)]
  /\ pc' = [pc EXCEPT ![r] = "create_job"]
  /\ UNCHANGED <<uploadVars, jobCalls, trackVars, downloadVars>>

\* create_job then submit_job, exit(1) if either fails; submit_job is only
\* called with the id of a job that was created
CreateJob(r) ==
  /\ pc[r] = "create_job"
  /\ \E created \in BOOLEAN, submitted \in BOOLEAN :
       /\ jobCalls' = [jobCalls EXCEPT ![r].create = @ + 1,
                                       ![r].submit = IF created THEN @ + 1 ELSE @]
       /\ pc' = [pc EXCEPT ![r] = IF created /\ submitted THEN "poll" ELSE "exit1"]
  /\ UNCHANGED <<uploadVars, inputs, trackVars, downloadVars>>

\* -------------------------------------------------- tracking_job_progress
Snapshots == [state : JobStates, progress : Percents, step : Steps]

\* what get_job_progress may return: an error or a snapshot
ProgressReturns ==
  {[error |-> TRUE, value |-> NoSnapshot]} \cup
  {[error |-> FALSE, value |-> s] : s \in Snapshots}

\* variants of Cycle, each with one branch of the loop changed
CycleWith(ret, success, cancelled, failed, error) ==
  IF ret.error THEN error
  ELSE LET state == ret.value.state
       IN CASE state \in SuccessStates -> success
            [] state \in RunningStates ->
                 [to |-> "sleep", progress |-> TRUE, line |-> None]
            [] state = "CANCELLED" -> cancelled
            [] state = "FAILED" -> failed
            [] OTHER ->
                 [to |-> "sleep", progress |-> FALSE, line |-> None]

OnError == [to |-> "exit1", progress |-> FALSE, line |-> "Error while getting progress"]
OnSuccess == [to |-> "break", progress |-> FALSE, line |-> "Job done"]
OnCancelled == [to |-> "exit0", progress |-> FALSE, line |-> "Job cancelled"]
OnFailed == [to |-> "exit1", progress |-> TRUE, line |-> "Job Failed"]

\* success does not leave the loop
CycleSuccessSleeps(ret) ==
  CycleWith(ret, [OnSuccess EXCEPT !.to = "sleep"], OnCancelled, OnFailed, OnError)
\* the FAILED branch does not print the Progress line
CycleFailedSilent(ret) ==
  CycleWith(ret, OnSuccess, OnCancelled, [OnFailed EXCEPT !.progress = FALSE], OnError)
\* the CANCELLED branch leaves the loop the way success does
CycleCancelledBreaks(ret) ==
  CycleWith(ret, OnSuccess, [OnCancelled EXCEPT !.to = "break"], OnFailed, OnError)
\* the FAILED branch leaves the loop the way success does
CycleFailedBreaks(ret) ==
  CycleWith(ret, OnSuccess, OnCancelled, [OnFailed EXCEPT !.to = "break"], OnError)
\* a query error is retried after the wait
CycleErrorRetries(ret) ==
  CycleWith(ret, OnSuccess, OnCancelled, OnFailed, [OnError EXCEPT !.to = "sleep"])

\* a RUNNING answer goes straight to the next query, without the wait
CycleSpins(ret) ==
  IF ~ret.error /\ ret.value.state \in RunningStates
  THEN [to |-> "poll", progress |-> TRUE, line |-> None]
  ELSE CycleWith(ret, OnSuccess, OnCancelled, OnFailed, OnError)
\* the raw value Over is not among the values of success
CycleOverUnhandled(ret) ==
  CycleWith(ret,
            IF ret.value.state = "Over"
            THEN [to |-> "sleep", progress |-> FALSE, line |-> None] ELSE OnSuccess,
            OnCancelled, OnFailed, OnError)
\* a raw value the loop has no branch for ends the run
CycleUnknownExits(ret) ==
  IF ~ret.error /\ ret.value.state \notin (TerminalStates \cup RunningStates)
  THEN [to |-> "exit1", progress |-> FALSE, line |-> None]
  ELSE CycleWith(ret, OnSuccess, OnCancelled, OnFailed, OnError)

\* one cycle of the loop on the answer ret: where control goes ("break" out
\* of the loop, "sleep", "exit0", "exit1"), whether the Progress line is
\* printed, and the status line printed
Cycle(ret) ==
  IF ret.error
  THEN [to |-> "exit1", progress |-> FALSE, line |-> "Error while getting progress"]
  ELSE LET state == ret.value.state
       IN CASE state \in SuccessStates ->
                 [to |-> "break", progress |-> FALSE, line |-> "Job done"]
            [] state \in RunningStates ->
                 [to |-> "sleep", progress |-> TRUE, line |-> None]
            [] state = "CANCELLED" ->
                 [to |-> "exit0", progress |-> FALSE, line |-> "Job cancelled"]
            [] state = "FAILED" ->
                 [to |-> "exit1", progress |-> TRUE, line |-> "Job Failed"]
            [] OTHER ->
                 [to |-> "sleep", progress |-> FALSE, line |-> None]

\* the Progress line prints the fields of the snapshot just received
Observation(snapshot) == <<snapshot.progress, snapshot.step>>

PollJobProgress(r) ==
  /\ pc[r] = "poll"
  /\ Len(served[r]) < MaxPolls
  /\ \E ret \in ProgressReturns :
       LET c == Cycle(ret)
       IN /\ served' = [served EXCEPT ![r] =
                          Append(@, IF ret.error THEN QueryError ELSE ret.value.state)]
          /\ job_progress' = [job_progress EXCEPT ![r] =
                                IF ret.error THEN @ ELSE ret.value]
          /\ nObs' = [nObs EXCEPT ![r] = IF c.progress THEN @ + 1 ELSE @]
          /\ lastObs' = [lastObs EXCEPT ![r] =
                           IF c.progress THEN Observation(ret.value) ELSE @]
          /\ msg' = [msg EXCEPT ![r] = IF c.line = None THEN @ ELSE c.line]
          /\ pc' = [pc EXCEPT ![r] = IF c.to = "break" THEN "properties" ELSE c.to]
  /\ UNCHANGED <<uploadVars, inputs, jobCalls, nSleeps, downloadVars>>

\* time.sleep(60)
Sleep(r) ==
  /\ pc[r] = "sleep"
  /\ nSleeps' = [nSleeps EXCEPT ![r] = @ + 1]
  /\ pc' = [pc EXCEPT ![r] = "poll"]
  /\ UNCHANGED <<uploadVars, inputs, jobCalls, served, job_progress, nObs, lastObs, msg, downloadVars>>

\* ------------------------------------------------------- download_outputs
\* the outputs the finished job may declare: each kind has its id or None
DeclaredOutputs == {o \in [KindSet -> {None, "id1", "id2", "id3"}] :
                      \A k \in KindSet : o[k] \in {None, OutputIdOf[k]}}

\* {key: value for key, value in outputs.items() if value is not None}, as
\* the sequence of its keys in attribute order
RECURSIVE output_types(_, _)
output_types(o, kinds) ==
  IF kinds = << >> THEN << >>
  ELSE IF o[Head(kinds)] # None
       THEN <<Head(kinds)>> \o output_types(o, Tail(kinds))
       ELSE output_types(o, Tail(kinds))

\* ret = service_cc.get_job_properties(job_id); exit(1) on error
GetJobProperties(r) ==
  /\ pc[r] = "properties"
  /\ jobCalls' = [jobCalls EXCEPT ![r].properties = @ + 1]
  /\ \/ /\ pc' = [pc EXCEPT ![r] = "exit1"]
        /\ UNCHANGED <<outputs, todo>>
     \/ \E o \in DeclaredOutputs :
          /\ outputs' = [outputs EXCEPT ![r] = o]
          /\ todo' = [todo EXCEPT ![r] = output_types(o, OutputKinds)]
          /\ pc' = [pc EXCEPT ![r] = "download"]
  /\ UNCHANGED <<uploadVars, inputs, trackVars, attempts, dlOk, errPrinted, dlPrinted>>

\* the outputs the loop still visits after the download of the head of todo
\* returned ok: the loop has no break or exit, so all the others
RestAfterAbort(td, ok) == IF ok THEN Tail(td) ELSE << >>
RestAfter(td, ok) == Tail(td)

\* the lines printed for one output after its download returned ok:
\* the error line only on error, the "Downloaded" line in both cases
PrintsError(ok) == ~ok
PrintsDownloaded(ok) == TRUE

\* one iteration of the loop over output_types
DownloadOutput(r) ==
  /\ pc[r] = "download"
  /\ todo[r] # << >>
  /\ LET k == Head(todo[r])
     IN /\ IF outputs[r][k] # None
           THEN \E ok \in BOOLEAN :
                  /\ attempts' = [attempts EXCEPT ![r][k] = @ + 1]
                  /\ dlOk' = [dlOk EXCEPT ![r] = IF ok THEN @ \cup {k} ELSE @]
                  /\ errPrinted' = [errPrinted EXCEPT ![r] =
                                      IF PrintsError(ok) THEN @ \cup {k} ELSE @]
                  /\ dlPrinted' = [dlPrinted EXCEPT ![r] =
                                     IF PrintsDownloaded(ok) THEN @ \cup {k} ELSE @]
                  /\ todo' = [todo EXCEPT ![r] = RestAfter(@, ok)]
           ELSE /\ todo' = [todo EXCEPT ![r] = Tail(@)]
                /\ UNCHANGED <<attempts, dlOk, errPrinted, dlPrinted>>
  /\ UNCHANGED <<pc, uploadVars, inputs, jobCalls, trackVars, outputs>>

\* print("Downloads Completed"); main() returns
DownloadsCompleted(r) ==
  /\ pc[r] = "download"
  /\ todo[r] = << >>
  /\ pc' = [pc EXCEPT ![r] = "done"]
  /\ UNCHANGED <<uploadVars, inputs, jobCalls, trackVars, downloadVars>>

\* --------------------------------------------------------- specifications
\* runs of upload_data (up to the job settings) that share the reference file
UploadStep(r) ==
  \/ LoadReferences(r)
  \/ UploadImageCollection(r)
  \/ SaveAfterImages(r)
  \/ UploadOrientations(r)
  \/ SaveReferences(r)
  \/ CreateWorkspace(r)
  \/ CreateJobSettings(r)

Next == \E r \in Runs : UploadStep(r) \/ Crash(r)

Spec == Init /\ [][Next]_vars

\* one run of main() against a job that ends: the status service answers
\* with a terminal snapshot or an error at the latest on query MaxPolls, and
\* the run keeps taking its next step
PollEndingJob(r) ==
  /\ PollJobProgress(r)
  /\ Len(served'[r]) = MaxPolls =>
       served'[r][MaxPolls] \in TerminalStates \cup {QueryError}

LiveStep(r) ==
  \/ UploadStep(r)
  \/ CreateJob(r)
  \/ PollEndingJob(r)
  \/ Sleep(r)
  \/ GetJobProperties(r)
  \/ DownloadOutput(r)
  \/ DownloadsCompleted(r)

NextLive == LiveStep(MainRun)

SpecLive == Init /\ [][NextLive]_vars /\ WF_vars(NextLive)

\* the lines of upload_data that record an upload, applied to any table: the
\* upload of path p returned cloud id c, then add_reference, then exit(1) if
\* that failed
TableIds == 1..2

AddAfterUpload(r) ==
  /\ pc[r] = "idle"
  /\ calls[r]["images"] + calls[r]["orientations"] < MaxAdds
  /\ \E p \in Paths, c \in TableIds :
       LET after == AfterUpload(refs[r], p, [error |-> FALSE, value |-> c])
       IN /\ refs' = [refs EXCEPT ![r] = after.table]
          /\ calls' = [calls EXCEPT ![r][p] = @ + 1]
          /\ pc' = [pc EXCEPT ![r] = IF after.exit THEN "exit1" ELSE @]
  /\ UNCHANGED <<file, cloud, cc_image_collections, cc_orientations, loaded, inputs, jobCalls>>
  /\ UNCHANGED <<trackVars, downloadVars>>

NextTable == \E r \in Runs : AddAfterUpload(r)

SpecTable == Init /\ [][NextTable]_vars

\* one run of main() from start to end
MainStep(r) ==
  \/ UploadStep(r)
  \/ CreateJob(r)
  \/ PollJobProgress(r)
  \/ Sleep(r)
  \/ GetJobProperties(r)
  \/ DownloadOutput(r)
  \/ DownloadsCompleted(r)

NextMain == MainStep(MainRun)

SpecMain == Init /\ [][NextMain]_vars

\* ================================================================ properties
CloudIdOf(t, p) == get_cloud_id_from_local_path(t, p).value

\* run r is at the test that guards the upload of path p
Checks(r, p) ==
  \/ pc[r] = "images" /\ p = cc_image_collections
  \/ pc[r] = "orientations" /\ p = cc_orientations

\* C1: dedup fast path.  When upload_data tests a path that is already a key
\* of the table, that step makes no upload call and leaves the table as it
\* is; an entry of the table never changes afterwards; and the job inputs
\* built by create_job_settings are the cloud ids stored in the table.
C1_DedupFastPath ==
  [][\A r \in Runs :
       /\ \A p \in Paths :
            (Checks(r, p) /\ has_local_path(refs[r], p) /\ pc'[r] # pc[r])
              => (calls'[r] = calls[r] /\ refs'[r] = refs[r] /\ cloud' = cloud)
       /\ \A p \in Paths :
            has_local_path(refs[r], p) => CloudIdOf(refs'[r], p) = CloudIdOf(refs[r], p)
       /\ (pc[r] = "settings" /\ pc'[r] = "create_job")
            => inputs'[r] = <<CloudIdOf(refs[r], cc_image_collections),
                              CloudIdOf(refs[r], cc_orientations)>>
    ]_vars

\* a run found both paths in the file written by an earlier run, made no
\* upload call and built its job inputs from the stored ids
C1_Witness ==
  \E r \in Runs :
    /\ pc[r] = "create_job"
    /\ cc_image_collections # cc_orientations
    /\ has_local_path(loaded[r], cc_image_collections)
    /\ has_local_path(loaded[r], cc_orientations)
    /\ \A p \in Paths : calls[r][p] = 0
    /\ inputs[r] = <<CloudIdOf(loaded[r], cc_image_collections),
                     CloudIdOf(loaded[r], cc_orientations)>>
    /\ cloud[inputs[r][1]].run # r

\* ----------------------------------------------------- the polling loop
Last(s) == s[Len(s)]
TrackingPcs == {"poll", "sleep"}
AfterSuccessPcs == {"properties", "download", "done"}

\* number of RUNNING-class answers among the first n served to run r
RECURSIVE RunningIn(_, _)
RunningIn(s, n) ==
  IF n = 0 THEN 0
  ELSE RunningIn(s, n - 1) + (IF s[n] \in RunningStates THEN 1 ELSE 0)

\* served is zero or more RUNNING-class answers followed by one terminal one
RunningThenTerminal(s) ==
  /\ s # << >>
  /\ Last(s) \in TerminalStates
  /\ \A i \in 1..(Len(s) - 1) : s[i] \in RunningStates

\* C2: a terminal answer is always the last one served (the loop stops on
\* the cycle it appears and never queries again); on a sequence of RUNNING
\* answers followed by one terminal answer the loop has ended in the way of
\* that answer, and after SUCCESS the Progress lines printed are as many as
\* the RUNNING answers.
C2_StopsOnFirstTerminal ==
  \A r \in Runs :
    LET s == served[r]
        n == Len(s)
    IN /\ \A i \in 1..n : s[i] \in TerminalStates => (i = n /\ pc[r] \notin TrackingPcs)
       /\ RunningThenTerminal(s) =>
            /\ Last(s) \in SuccessStates =>
                 (pc[r] \in AfterSuccessPcs \cup {"exit1"} /\ nObs[r] = n - 1)
            /\ Last(s) = "CANCELLED" => pc[r] = "exit0"
            /\ Last(s) = "FAILED" => pc[r] = "exit1"

\* [RUNNING, RUNNING, SUCCESS]: 3 queries, 2 observations, loop left
C2_Witness ==
  /\ served[MainRun] = <<"ACTIVE", "Running", "SUCCESS">>
  /\ nObs[MainRun] = 2
  /\ pc[MainRun] = "properties"

\* C6: when the last answer is FAILED the run has exited with code 1 after
\* printing "Job Failed" and one more Progress line, which carries the
\* progress and step of the FAILED snapshot; no wait and no query follow
\* that answer.
C6_FailedSurfaced ==
  \A r \in Runs :
    (\E i \in 1..Len(served[r]) : served[r][i] = "FAILED") =>
      /\ Last(served[r]) = "FAILED"
      /\ pc[r] = "exit1"
      /\ msg[r] = "Job Failed"
      /\ job_progress[r].state = "FAILED"
      /\ lastObs[r] = <<job_progress[r].progress, job_progress[r].step>>
      /\ nObs[r] = RunningIn(served[r], Len(served[r])) + 1
      /\ nSleeps[r] = Len(served[r]) - 1

\* [RUNNING, FAILED] where the two snapshots differ in progress
C6_Witness ==
  /\ served[MainRun] = <<"Running", "FAILED">>
  /\ pc[MainRun] = "exit1"
  /\ nObs[MainRun] = 2
  /\ job_progress[MainRun] = [state |-> "FAILED", progress |-> 100, step |-> "s2"]
  /\ lastObs[MainRun] = <<100, "s2">>

\* C7: when the last answer is CANCELLED the run has exited with code 0 and
\* the line "Job cancelled"; that outcome is told apart from success ("Job
\* done", the run goes on) and from failure ("Job Failed", exit code 1); and
\* the job properties are never asked for and nothing is downloaded.
C7_CancelledOutcome ==
  \A r \in Runs :
    /\ (\E i \in 1..Len(served[r]) : served[r][i] = "CANCELLED") =>
         /\ Last(served[r]) = "CANCELLED"
         /\ pc[r] = "exit0"
         /\ msg[r] = "Job cancelled"
         /\ outputs[r] = [k \in KindSet |-> None]
         /\ \A k \in KindSet : attempts[r][k] = 0
    /\ (pc[r] = "exit0" \/ msg[r] = "Job cancelled") =>
         (served[r] # << >> /\ Last(served[r]) = "CANCELLED")
    /\ pc[r] \in AfterSuccessPcs => msg[r] = "Job done"

C7_Witness ==
  /\ served[MainRun] = <<"CANCELLED">>
  /\ pc[MainRun] = "exit0"
  /\ msg[MainRun] = "Job cancelled"

\* C8: when the last answer is a query error the run has exited with code 1
\* on that cycle: the error is the last answer served (no retry, no further
\* query), no wait and no Progress line follow it, and the snapshot held is
\* still the one of the answer before.
C8_QueryErrorFailsFast ==
  \A r \in Runs :
    LET s == served[r]
        n == Len(s)
    IN /\ \A i \in 1..n : s[i] = QueryError => i = n
       /\ (n > 0 /\ s[n] = QueryError) =>
            /\ pc[r] = "exit1"
            /\ msg[r] = "Error while getting progress"
            /\ nSleeps[r] = n - 1
            /\ nObs[r] = RunningIn(s, n - 1)
            /\ job_progress[r].state = (IF n = 1 THEN None ELSE s[n - 1])

C8_Witness ==
  /\ served[MainRun] = <<"ACTIVE", QueryError>>
  /\ pc[MainRun] = "exit1"
  /\ nObs[MainRun] = 1
  /\ nSleeps[MainRun] = 1

\* --------------------------------------------------- the download loop
InTodo(r, k) == \E i \in 1..Len(todo[r]) : todo[r][i] = k

\* C9: a download is attempted at most once per kind and only for a kind
\* whose id is present; while the loop runs every present kind is either
\* attempted or still to be visited, whatever the earlier downloads
\* returned; when the loop is over every present kind was attempted once.
C9_DownloadsAttempted ==
  \A r \in Runs : \A k \in KindSet :
    /\ attempts[r][k] <= 1
    /\ attempts[r][k] = 1 => outputs[r][k] # None
    /\ (pc[r] = "download" /\ outputs[r][k] # None) =>
         (attempts[r][k] = 1) # InTodo(r, k)
    /\ pc[r] = "done" => attempts[r][k] = (IF outputs[r][k] # None THEN 1 ELSE 0)

\* {A: id1, B: None, C: id3} with A failing: C attempted, B never
C9_Witness ==
  /\ pc[MainRun] = "done"
  /\ outputs[MainRun] = [cesium_3D_tiles |-> "id1", obj |-> None, las |-> "id3"]
  /\ attempts[MainRun] = [cesium_3D_tiles |-> 1, obj |-> 0, las |-> 1]
  /\ dlOk[MainRun] = {"las"}

\* C10: for each attempted kind, a failed download has the error line and
\* not the "Downloaded" line, a successful one has the "Downloaded" line and
\* not the error line.
C10_ReportedPerKind ==
  \A r \in Runs : \A k \in KindSet :
    attempts[r][k] = 1 =>
      /\ k \notin dlOk[r] => (k \in errPrinted[r] /\ k \notin dlPrinted[r])
      /\ k \in dlOk[r] => (k \in dlPrinted[r] /\ k \notin errPrinted[r])

\* ------------------------------------------------------- the upload phase
\* the cloud holds an upload of path p under id c
Uploaded(p, c) == c \in 1..Len(cloud) /\ cloud[c].path = p
\* ... made by run r
UploadedBy(r, p, c) == Uploaded(p, c) /\ cloud[c].run = r

InTable(t, e) == \E i \in 1..Len(t) : t[i] = e
ReturnedPcs == {"uploaded", "settings", "create_job"}

\* every entry of the in-memory table of run r was loaded from the file or
\* is the result of an upload that succeeded in run r
OnlyConfirmed(r) ==
  \A i \in 1..Len(refs[r]) :
    \/ InTable(loaded[r], refs[r][i])
    \/ UploadedBy(r, refs[r][i][1], refs[r][i][2])

\* the step is an upload call of run r that failed
FailedUploadStep(r) == calls'[r] # calls[r] /\ cloud' = cloud

\* C3: the in-memory table only holds entries loaded from the file or
\* confirmed by a successful upload of this run, and a failed upload call
\* leaves table and file as they were and ends the run with exit code 1.
C3_FailedUploadNoMutation ==
  /\ [](\A r \in Runs : OnlyConfirmed(r))
  /\ [][\A r \in Runs :
          FailedUploadStep(r) =>
            (refs'[r] = refs[r] /\ file' = file /\ pc'[r] = "exit1")]_vars

\* the upload of the orientations failed after the one of the images succeeded
C3_Witness ==
  \E r \in Runs :
    /\ pc[r] = "exit1"
    /\ cc_image_collections # cc_orientations
    /\ calls[r] = [p \in Paths |-> 1]
    /\ has_local_path(refs[r], cc_image_collections)
    /\ ~has_local_path(refs[r], cc_orientations)
    /\ ~has_local_path(loaded[r], cc_image_collections)

\* the two resources of a run
Resources == {cc_image_collections, cc_orientations}

\* run r takes the step that loads the file (or finds none) and goes on
LoadStep(r) == pc[r] = "idle" /\ pc'[r] = "images"

\* upload calls run r owes for path p: one if p was missing from the table
\* it loaded, none if it was there
Owed(r, p) == IF has_local_path(loaded[r], p) THEN 0 ELSE 1

\* C4: whatever run crashed, and wherever, the file only holds records of
\* completed uploads and loads back as the table that was saved; a run that
\* loads it starts from exactly those records, never holds an entry that is
\* not a completed upload of that path, uploads no path that was in the
\* file, and when it returns it has uploaded once each path that was missing.
C4_CrashResumable ==
  /\ [](/\ \A i \in 1..Len(file.lines) : Uploaded(file.lines[i][1], file.lines[i][2])
        /\ load(EmptyTable, file) = [error |-> FALSE, table |-> file.lines]
        /\ \A r \in Runs :
             /\ \A i \in 1..Len(refs[r]) : Uploaded(refs[r][i][1], refs[r][i][2])
             /\ \A p \in Resources : calls[r][p] <= Owed(r, p)
             /\ pc[r] \in ReturnedPcs => \A p \in Resources : calls[r][p] = Owed(r, p))
  /\ [][\A r \in Runs :
          LoadStep(r) => (loaded'[r] = file.lines /\ refs'[r] = file.lines)]_vars

\* a run crashed after its upload of the orientations and before the save;
\* the next run found only the images in the file, uploaded the orientations
\* again and returned
C4_Witness ==
  \E r1 \in Runs, r2 \in Runs :
    /\ cc_image_collections # cc_orientations
    /\ pc[r1] = "crashed"
    /\ calls[r1] = [p \in Paths |-> 1]
    /\ has_local_path(refs[r1], cc_orientations)
    /\ pc[r2] = "uploaded"
    /\ has_local_path(loaded[r2], cc_image_collections)
    /\ ~has_local_path(loaded[r2], cc_orientations)
    /\ calls[r2] = [p \in Paths |-> IF p = cc_orientations THEN 1 ELSE 0]
    /\ CloudIdOf(refs[r2], cc_orientations) # CloudIdOf(refs[r1], cc_orientations)
    /\ file.lines = refs[r2]

\* C5: a run that loads the file as a run that returned normally left it
\* starts from that run's table, makes no upload call, and the table it
\* holds and returns maps both paths to the cloud ids of that run.
C5_CrossRunIdempotent ==
  /\ [][\A r1 \in Runs, r2 \in Runs :
          (pc[r1] \in ReturnedPcs /\ file = save(refs[r1]) /\ LoadStep(r2))
            => loaded'[r2] = refs[r1]]_vars
  /\ [](\A r1 \in Runs, r2 \in Runs :
          (r1 # r2 /\ pc[r1] \in ReturnedPcs /\ pc[r2] # "idle" /\ loaded[r2] = refs[r1])
            => /\ \A p \in Paths : calls[r2][p] = 0
               /\ \A p \in Resources :
                    /\ has_local_path(refs[r2], p)
                    /\ CloudIdOf(refs[r2], p) = CloudIdOf(refs[r1], p))

\* the second run returned after the first, with no upload call and the
\* same two cloud ids
C5_Witness ==
  \E r1 \in Runs, r2 \in Runs :
    /\ r1 # r2
    /\ cc_image_collections # cc_orientations
    /\ pc[r1] \in ReturnedPcs /\ pc[r2] = "uploaded"
    /\ calls[r1] = [p \in Paths |-> 1]
    /\ calls[r2] = [p \in Paths |-> 0]
    /\ loaded[r2] = refs[r1]
    /\ refs[r2] = refs[r1]
    /\ Len(refs[r2]) = 2

\* ------------------------------------------------------ order of main()
HasBothInputs(r) ==
  /\ has_local_path(refs[r], cc_image_collections)
  /\ has_local_path(refs[r], cc_orientations)

Downloads(r) == \E k \in KindSet : attempts[r][k] > 0

\* C11: create_job and submit_job are called at most once each, submit_job
\* never before create_job, and create_job only when both inputs have a
\* cloud id in the table; a status query only follows one call of each;
\* get_job_properties is called at most once and only after an answer of
\* the SUCCESS class; a download only follows that call, so never in a run
\* whose last answer is CANCELLED, FAILED or a query error.
C11_PipelineOrder ==
  \A r \in Runs :
    /\ jobCalls[r].create <= 1 /\ jobCalls[r].submit <= jobCalls[r].create
    /\ jobCalls[r].create = 1 =>
         /\ HasBothInputs(r)
         /\ inputs[r] = <<CloudIdOf(refs[r], cc_image_collections),
                          CloudIdOf(refs[r], cc_orientations)>>
         /\ \A i \in 1..2 : inputs[r][i] # NoCloudId
    /\ served[r] # << >> => (jobCalls[r].create = 1 /\ jobCalls[r].submit = 1)
    /\ jobCalls[r].properties <= 1
    /\ jobCalls[r].properties = 1 =>
         (served[r] # << >> /\ Last(served[r]) \in SuccessStates)
    /\ pc[r] \in AfterSuccessPcs => jobCalls[r].properties = (IF pc[r] = "properties" THEN 0 ELSE 1)
    /\ Downloads(r) => jobCalls[r].properties = 1
    /\ (served[r] # << >> /\ Last(served[r]) \notin SuccessStates) =>
         (jobCalls[r].properties = 0 /\ ~Downloads(r))

\* a whole run: job created and submitted, polled to SUCCESS, properties
\* asked for once, outputs downloaded
C11_Witness ==
  /\ pc[MainRun] = "done"
  /\ jobCalls[MainRun] = [create |-> 1, submit |-> 1, properties |-> 1]
  /\ Len(served[MainRun]) = 2
  /\ Downloads(MainRun)

\* ------------------------------------------------------ save and load
\* run r takes a save step whose call returned an error: the file after the
\* step is not the table of run r
FailedSaveStep(r) ==
  /\ pc[r] \in {"save1", "save2"}
  /\ pc'[r] \notin {pc[r], "crashed"}
  /\ file' # save(refs[r])

\* C12: a save call that returned an error ends the run with exit code 1, so
\* no upload, add_reference or job creation follows it.
C12_SaveFailureSurfaced ==
  [][\A r \in Runs : FailedSaveStep(r) => pc'[r] = "exit1"]_vars

\* run r leaves the load of an existing file without going on
LoadFailedStep(r) == pc[r] = "idle" /\ file.exists /\ pc'[r] \notin {"idle", "images"}

\* C13: a run goes on from the load of an existing file only with the
\* records of the file in its table; when the load fails the run exits with
\* code 1 in that step, with an empty table, no upload call and the file
\* untouched, and a run that has exited never acts again.
C13_LoadFailureAborts ==
  [][\A r \in Runs :
       /\ (LoadStep(r) /\ file.exists) => refs'[r] = file.lines
       /\ LoadFailedStep(r) =>
            /\ pc'[r] = "exit1"
            /\ refs'[r] = EmptyTable
            /\ calls'[r] = [p \in Paths |-> 0]
            /\ file' = file /\ cloud' = cloud
       /\ pc[r] = "exit1" =>
            (pc'[r] = "exit1" /\ refs'[r] = refs[r] /\ calls'[r] = calls[r])
    ]_vars

\* a run failed to load a file that holds records: it has exited with an
\* empty table and no upload call, and the file still holds the records
C13_Witness ==
  \E r \in Runs :
    /\ pc[r] = "exit1"
    /\ refs[r] = EmptyTable
    /\ calls[r] = [p \in Paths |-> 0]
    /\ file.exists /\ Len(file.lines) = 2

\* ------------------------------------------------ runs sharing the file
\* run r takes one of its two save steps
SaveStep(r) == pc[r] \in {"save1", "save2"} /\ pc'[r] \notin {pc[r], "crashed"}

\* C14: the file only changes in a save step of some run, which makes it
\* that run's whole table, whatever the file held and whatever the other
\* runs are doing; a run that returns from upload_data leaves its own table
\* in the file; and a run reads the file only in its first step.
C14_LastSaveWins ==
  [][/\ file' # file => \E r \in Runs : SaveStep(r) /\ file' = save(refs[r])
     /\ \A r \in Runs :
          /\ (pc[r] = "save2" /\ pc'[r] = "uploaded") => file' = save(refs[r])
          /\ pc[r] # "idle" => loaded'[r] = loaded[r]
    ]_vars

\* two runs both loaded no reference, both uploaded the image collection
\* and both returned; the file is the table of one of them and the
\* reference the other recorded is not in it
C14_Witness ==
  \E r1 \in Runs, r2 \in Runs :
    /\ r1 # r2
    /\ pc[r1] \in ReturnedPcs /\ pc[r2] \in ReturnedPcs
    /\ loaded[r1] = EmptyTable /\ loaded[r2] = EmptyTable
    /\ calls[r1][cc_image_collections] = 1 /\ calls[r2][cc_image_collections] = 1
    /\ UploadedBy(r1, cc_image_collections, CloudIdOf(refs[r1], cc_image_collections))
    /\ UploadedBy(r2, cc_image_collections, CloudIdOf(refs[r2], cc_image_collections))
    /\ file = save(refs[r2])
    /\ ~InLines(file.lines, <<cc_image_collections, CloudIdOf(refs[r1], cc_image_collections)>>)

\* --------------------------------------------------- keys of the table
UniqueKeys(t) == \A i \in 1..Len(t), j \in 1..Len(t) : t[i][1] = t[j][1] => i = j

\* the step records an upload of path p in the table of run r
AddStep(r, p) == calls'[r][p] # calls[r][p]

\* C15: no table holds two entries for one local path; recording an upload
\* for a path the table already holds fails, leaves the table as it was and
\* ends the run with exit code 1; recording one for a new path adds it and
\* the run goes on.
C15_UniqueKeys ==
  /\ [](\A r \in Runs : UniqueKeys(refs[r]))
  /\ [][\A r \in Runs, p \in Paths :
          AddStep(r, p) =>
            IF has_local_path(refs[r], p)
            THEN refs'[r] = refs[r] /\ pc'[r] = "exit1"
            ELSE has_local_path(refs'[r], p) /\ Len(refs'[r]) = Len(refs[r]) + 1
                 /\ pc'[r] = pc[r]]_vars

\* images -> 1 recorded, then a second record for images with id 2 refused
C15_Witness ==
  \E r \in Runs :
    /\ pc[r] = "exit1"
    /\ refs[r] = << <<"images", 1>> >>
    /\ calls[r]["images"] = 2

\* ------------------------------------------------ pacing and raw states
\* C16: the waits of a run are as many as its queries while it is about to
\* query, and one fewer while it is about to wait and once the loop is over:
\* one wait between any two queries, none after the last cycle.
C16_PollPacing ==
  \A r \in Runs :
    LET n == Len(served[r])
    IN /\ pc[r] = "poll" => nSleeps[r] = n
       /\ pc[r] = "sleep" => (n >= 1 /\ nSleeps[r] = n - 1)
       /\ pc[r] \notin TrackingPcs => nSleeps[r] = (IF n = 0 THEN 0 ELSE n - 1)

\* three queries, two waits, the last answer ends the loop
C16_Witness ==
  /\ served[MainRun] = <<"ACTIVE", "UNKNOWN", "FAILED">>
  /\ nSleeps[MainRun] = 2
  /\ pc[MainRun] = "exit1"

\* C17: what the loop did on the last answer depends only on the class of
\* its raw state.  SUCCESS, Completed and Over, and only they, give "Job
\* done" and the run goes on; ACTIVE and Running leave the run in the loop
\* with the Progress line of that snapshot; CANCELLED, and only it, gives
\* "Job cancelled" and exit code 0; FAILED, and only it, gives "Job Failed";
\* Progress lines are one per RUNNING-class answer plus one for FAILED; the
\* classes do not overlap.
C17_StateNormalization ==
  /\ SuccessStates \cap RunningStates = {}
  /\ {"CANCELLED", "FAILED"} \cap (SuccessStates \cup RunningStates) = {}
  /\ \A r \in Runs :
       LET s == served[r]
           n == Len(s)
       IN n > 0 =>
            /\ (s[n] \in SuccessStates) = (msg[r] = "Job done")
            /\ s[n] \in SuccessStates => pc[r] \in AfterSuccessPcs \cup {"exit1"}
            /\ s[n] \in RunningStates =>
                 /\ pc[r] \in TrackingPcs
                 /\ lastObs[r] = <<job_progress[r].progress, job_progress[r].step>>
                 /\ job_progress[r].state = s[n]
            /\ (s[n] = "CANCELLED") = (msg[r] = "Job cancelled")
            /\ (s[n] = "CANCELLED") = (pc[r] = "exit0")
            /\ (s[n] = "FAILED") = (msg[r] = "Job Failed")
            /\ nObs[r] = RunningIn(s, n) + (IF s[n] = "FAILED" THEN 1 ELSE 0)

\* both raw values of RUNNING, then a less usual raw value of success
C17_Witness ==
  /\ served[MainRun] = <<"Running", "ACTIVE", "Over">>
  /\ nObs[MainRun] = 2
  /\ msg[MainRun] = "Job done"
  /\ pc[MainRun] = "properties"

\* --------------------------------------------------- end of the tracking
EndingAnswers == TerminalStates \cup {QueryError}

\* C18: the loop is over exactly when the last answer is a query error or a
\* snapshot of the SUCCESS, CANCELLED or FAILED class; an answer of no
\* handled class prints no Progress line and leaves the run in the loop;
\* after every wait the loop queries again; and when the job ends, a run
\* that reached the loop leaves it.
C18_TrackingEnds ==
  /\ [](\A r \in Runs :
          LET s == served[r]
              n == Len(s)
          IN n > 0 =>
               /\ (pc[r] \notin TrackingPcs) = (s[n] \in EndingAnswers)
               /\ s[n] \notin (EndingAnswers \cup RunningStates) =>
                    (pc[r] \in TrackingPcs /\ nObs[r] = RunningIn(s, n - 1)))
  /\ (pc[MainRun] = "sleep") ~> (pc[MainRun] = "poll")
  /\ (pc[MainRun] = "poll") ~> (pc[MainRun] \notin TrackingPcs)

\* a snapshot of no handled class was answered first; the loop waited,
\* queried again and ended on SUCCESS
C18_Witness ==
  /\ served[MainRun] = <<"UNKNOWN", "SUCCESS">>
  /\ nObs[MainRun] = 0
  /\ nSleeps[MainRun] = 1
  /\ pc[MainRun] = "properties"

\* ------------------------------------------------ return of upload_data
\* run r returns from upload_data in this step
ReturnStep(r) == pc[r] = "save2" /\ pc'[r] = "uploaded"

\* C19: in the step in which upload_data returns, the table holds a cloud
\* id for both paths and the file is that table; from then on the table of
\* the run keeps both ids, each the id of a completed upload of its path,
\* and the inputs of the job are those two ids.
C19_DurableCheckpoint ==
  /\ [][\A r \in Runs :
          ReturnStep(r) =>
            (HasBothInputs(r) /\ refs'[r] = refs[r] /\ file' = save(refs[r]))]_vars
  /\ [](\A r \in Runs :
          pc[r] \in ReturnedPcs =>
            /\ \A p \in Resources :
                 has_local_path(refs[r], p) /\ Uploaded(p, CloudIdOf(refs[r], p))
            /\ pc[r] = "create_job" =>
                 inputs[r] = <<CloudIdOf(refs[r], cc_image_collections),
                               CloudIdOf(refs[r], cc_orientations)>>)

\* a run uploaded both resources, returned, and built its job inputs while
\* the file holds its table
C19_Witness ==
  \E r \in Runs :
    /\ pc[r] = "create_job"
    /\ calls[r] = [p \in Paths |-> 1]
    /\ file = save(refs[r])
    /\ Len(refs[r]) = 2
    /\ inputs[r] = <<refs[r][1][2], refs[r][2][2]>>

\* ------------------------------------------------- one upload per path
SamePath == cc_image_collections = cc_orientations

\* run r adds an entry to its table in a step of upload_data proper
AddsReference(r) == pc[r] # "idle" /\ refs'[r] # refs[r]

\* C20 as stated: at most one upload call per path in a run, and when both
\* paths are the same string a run that returns has made exactly one upload
\* call and gives the job the same cloud id twice.
C20_ExactlyOneUpload ==
  \A r \in Runs :
    /\ \A p \in Paths : calls[r][p] <= 1
    /\ (SamePath /\ pc[r] \in ReturnedPcs) => calls[r][cc_image_collections] = 1
    /\ (SamePath /\ pc[r] = "create_job") => inputs[r][1] = inputs[r][2]

\* C20 amended: an entry is only added for the path under test, when the
\* table does not hold it, together with one upload call; a run makes at
\* most one upload call per path and adds at most one entry per call; when
\* both paths are the same string a run that returns has made one upload
\* call if the path was missing from the table it loaded and none if it was
\* there, and the job gets the same cloud id twice.
C20_OneUploadPerPath ==
  /\ [][\A r \in Runs :
          AddsReference(r) =>
            \E p \in Paths :
              /\ Checks(r, p) /\ ~has_local_path(refs[r], p)
              /\ calls'[r] = [calls[r] EXCEPT ![p] = @ + 1]
              /\ refs'[r] = Append(refs[r], <<p, Len(cloud')>>)]_vars
  /\ [](\A r \in Runs :
          /\ \A p \in Paths : calls[r][p] <= 1
          /\ UniqueKeys(refs[r])
          /\ Len(refs[r]) - Len(loaded[r]) <= calls[r]["images"] + calls[r]["orientations"]
          /\ (SamePath /\ pc[r] \in ReturnedPcs) =>
               calls[r][cc_image_collections] = Owed(r, cc_image_collections)
          /\ (SamePath /\ pc[r] = "create_job") =>
               (inputs[r][1] = inputs[r][2] /\ inputs[r][1] # NoCloudId))

\* both paths are the same string and the file had no reference: one upload
\* call, one entry, the same id for both inputs
C20_Witness ==
  \E r \in Runs :
    /\ SamePath
    /\ pc[r] = "create_job"
    /\ loaded[r] = EmptyTable
    /\ calls[r][cc_image_collections] = 1
    /\ Len(refs[r]) = 1
    /\ inputs[r] = <<refs[r][1][2], refs[r][1][2]>>

====
